---- MODULE Spec2Model ----
(***************************************************************************)
(* imgtowebp: batch conversion of .jpg/.jpeg/.png files to .webp, from a   *)
(* directory scan (convert_to_webp.py, src/imgtowebp/cli.py) or from an    *)
(* upload form (webp_uploader/app.py, src/imgtowebp/web/app.py).           *)
(*                                                                         *)
(* Strings are sequences of one-character strings, so that strip, split,   *)
(* suffix, lower, int() and the substring test "exists" in message are     *)
(* computed.  A path is the sequence of its names below "/".               *)
(***************************************************************************)
EXTENDS Integers, Sequences, FiniteSets, TLC

VARIABLES
    mode,       \* "batch": a CLI run, "web": an upload request
    variant,    \* "legacy": convert_to_webp.py / webp_uploader/app.py,
                \* "package": src/imgtowebp/cli.py / src/imgtowebp/web/app.py
    pc,         \* position of the run or of the request handler
    fs,         \* the filesystem: path -> node
    fs0,        \* the filesystem when the run or request started
    args,       \* batch: the parsed command line
    pending,    \* batch: entries of the directory listing not yet yielded
    stats,      \* batch: ConversionStats
    outcome,    \* batch: path -> what the loop did with that entry
    exit,       \* batch: the process exit status (-1 while running) and stderr
    req,        \* web: the form fields and files of the request
    up,         \* web: the handler's locals (quality, target_dir, counters, results)
    lastCall    \* the latest convert_image call: arguments, result, filesystems

vars == <<mode, variant, pc, fs, fs0, args, pending, stats, outcome, exit,
          req, up, lastCall>>

----------------------------------------------------------------------------
(* Bounds *)

MaxFiles == 2        \* files in the scanned directory tree
MaxSize == 2         \* largest file size, in bytes
MaxUploads == 2      \* file entries of one upload request
MaxSubdirLen == 4    \* characters of the subdir form field
MaxQualityLen == 3   \* characters of the quality form field

----------------------------------------------------------------------------
(* Strings *)

Upper == <<"A","B","C","D","E","F","G","H","I","J","K","L","M",
           "N","O","P","Q","R","S","T","U","V","W","X","Y","Z">>
LowerOf == <<"a","b","c","d","e","f","g","h","i","j","k","l","m",
             "n","o","p","q","r","s","t","u","v","w","x","y","z">>
Digits == <<"0","1","2","3","4","5","6","7","8","9">>

Range(s) == {s[i] : i \in DOMAIN s}

\* str.lower(), one character
LowerTable ==
    [c \in Range(Upper) |-> LowerOf[CHOOSE i \in DOMAIN Upper : Upper[i] = c]]
LowerChar(c) == IF c \in DOMAIN LowerTable THEN LowerTable[c] ELSE c

\* str.lower()
Lower(s) == [i \in DOMAIN s |-> LowerChar(s[i])]

IsDigit(c) == c \in Range(Digits)
DigitVal(c) == (CHOOSE i \in DOMAIN Digits : Digits[i] = c) - 1
IsAlnum(c) == IsDigit(c) \/ c \in Range(Upper) \/ c \in Range(LowerOf)

\* str.strip(): leading and trailing whitespace removed
RECURSIVE LStrip(_)
LStrip(s) == IF s # <<>> /\ Head(s) = " " THEN LStrip(Tail(s)) ELSE s
RECURSIVE RStrip(_)
RStrip(s) ==
    IF s # <<>> /\ s[Len(s)] = " " THEN RStrip(SubSeq(s, 1, Len(s) - 1)) ELSE s
Strip(s) == RStrip(LStrip(s))

\* `sub in s`
Contains(s, sub) ==
    \E i \in 1..(Len(s) - Len(sub) + 1) : SubSeq(s, i, i + Len(sub) - 1) = sub

\* s.split(sep) for a one-character sep
RECURSIVE SplitAcc(_, _, _)
SplitAcc(s, sep, cur) ==
    IF s = <<>> THEN <<cur>>
    ELSE IF Head(s) = sep THEN <<cur>> \o SplitAcc(Tail(s), sep, <<>>)
    ELSE SplitAcc(Tail(s), sep, Append(cur, Head(s)))
Split(s, sep) == SplitAcc(s, sep, <<>>)

\* sep.join(parts)
RECURSIVE Join(_, _)
Join(parts, sep) ==
    IF parts = <<>> THEN <<>>
    ELSE IF Len(parts) = 1 THEN parts[1]
    ELSE parts[1] \o sep \o Join(Tail(parts), sep)

\* all strings over alphabet of length at most n
StringsUpTo(alphabet, n) == UNION {[1..k -> alphabet] : k \in 0..n}

----------------------------------------------------------------------------
(* pathlib *)

DOT == <<".">>
DOTDOT == <<".", ".">>

\* the index of the last "." of a name, 0 when there is none
LastDot(name) ==
    IF \E i \in DOMAIN name : name[i] = "."
    THEN CHOOSE i \in DOMAIN name :
            name[i] = "." /\ \A j \in DOMAIN name : name[j] = "." => j <= i
    ELSE 0

\* PurePath.suffix: from the last dot, unless it leads or ends the name
Suffix(name) ==
    LET i == LastDot(name)
    IN IF 1 < i /\ i < Len(name) THEN SubSeq(name, i, Len(name)) ELSE <<>>

\* PurePath.stem
Stem(name) ==
    LET i == LastDot(name)
    IN IF 1 < i /\ i < Len(name) THEN SubSeq(name, 1, i - 1) ELSE name

\* PurePath.with_suffix, applied to the last name of the path
WithSuffix(path, suffix) ==
    [path EXCEPT ![Len(path)] = Stem(path[Len(path)]) \o suffix]

\* PurePosixPath(s): is_absolute() and parts (without the root)
PathOf(s) ==
    [abs |-> s # <<>> /\ Head(s) = "/",
     parts |-> SelectSeq(Split(s, "/"), LAMBDA n : n # <<>> /\ n # DOT)]

\* PurePath.parents of an absolute path
Parents(path) == {SubSeq(path, 1, k) : k \in 0..(Len(path) - 1)}

\* str(path) of an absolute path
PathStr(path) == <<"/">> \o Join(path, <<"/">>)

----------------------------------------------------------------------------
(* Program constants and message texts *)

JPG == <<".","j","p","g">>
JPEG == <<".","j","p","e","g">>
PNG == <<".","p","n","g">>
WEBP == <<".","w","e","b","p">>
TXT == <<".","t","x","t">>

SUPPORTED_EXTENSIONS == {JPG, JPEG, PNG}
DEFAULT_QUALITY == 80

EXISTS == <<"e","x","i","s","t","s">>

\* core.py:48
MSG_EXISTS ==
    <<"O","u","t","p","u","t"," ","f","i","l","e"," ","a","l","r","e","a","d",
      "y"," ","e","x","i","s","t","s"," ","a","n","d"," ","o","v","e","r",
      "w","r","i","t","e"," ","i","s"," ","d","i","s","a","b","l","e","d",
      ".">>
\* core.py:73
MSG_ERROR ==
    <<"E","r","r","o","r"," ","d","u","r","i","n","g"," ","c","o","n","v","e",
      "r","s","i","o","n",":"," ">>
\* core.py:67
MSG_SUCCESS ==
    <<"S","u","c","c","e","s","s","f","u","l","l","y"," ","c","o","n","v","e",
      "r","t","e","d">>

\* str() of the exceptions the imaging library and the OS raise
ERR_IDENTIFY ==
    <<"c","a","n","n","o","t"," ","i","d","e","n","t","i","f","y"," ","i","m",
      "a","g","e"," ","f","i","l","e"," ">>
BYTESIO_REPR ==
    <<"<","_","i","o",".","B","y","t","e","s","I","O"," ","o","b","j","e","c",
      "t"," ","a","t"," ","0","x","7","f","3","a","5","c","1","d","2","e",
      "9","0",">">>
ERR_EACCES ==
    <<"[","E","r","r","n","o"," ","1","3","]"," ","P","e","r","m","i","s","s",
      "i","o","n"," ","d","e","n","i","e","d",":"," ">>
ERR_ENOSPC ==
    <<"[","E","r","r","n","o"," ","2","8","]"," ","N","o"," ","s","p","a","c",
      "e"," ","l","e","f","t"," ","o","n"," ","d","e","v","i","c","e">>

Quoted(s) == <<"'">> \o s \o <<"'">>

----------------------------------------------------------------------------
(* The filesystem: a function from absolute paths to nodes *)

FileNode(size, good) ==
    [kind |-> "file", size |-> size, good |-> good, target |-> <<>>]
DirNode == [kind |-> "dir", size |-> 0, good |-> FALSE, target |-> <<>>]
LinkNode(target) ==
    [kind |-> "link", size |-> 0, good |-> FALSE, target |-> target]

\* Path.exists()
PathExists(fsys, p) == p \in DOMAIN fsys
\* Path.is_file()
IsFile(fsys, p) == p \in DOMAIN fsys /\ fsys[p].kind = "file"
\* Path.stat().st_size
StSize(fsys, p) == fsys[p].size

\* the filesystem with node n at path p
PutNode(fsys, p, n) == [q \in DOMAIN fsys \cup {p} |-> IF q = p THEN n ELSE fsys[q]]
\* Path.unlink()
Unlink(fsys, p) == [q \in DOMAIN fsys \ {p} |-> fsys[q]]

\* Path.resolve() (non-strict): links followed, names that do not exist kept
RECURSIVE ResolveFrom(_, _, _)
ResolveFrom(fsys, cur, rest) ==
    IF rest = <<>> THEN cur
    ELSE LET name == Head(rest)
             cand == Append(cur, name)
         IN IF name = DOTDOT
            THEN ResolveFrom(fsys, SubSeq(cur, 1, Len(cur) - 1), Tail(rest))
            ELSE IF cand \in DOMAIN fsys /\ fsys[cand].kind = "link"
            THEN ResolveFrom(fsys, <<>>, fsys[cand].target \o Tail(rest))
            ELSE ResolveFrom(fsys, cand, Tail(rest))
Resolve(fsys, path) == ResolveFrom(fsys, <<>>, path)

\* Path.mkdir(parents=True, exist_ok=True): the filesystem afterwards; it
\* raises when a name on the way is not a directory
MkdirP(fsys, path) ==
    LET prefixes == {SubSeq(path, 1, k) : k \in 1..Len(path)}
    IN IF \E q \in prefixes : q \in DOMAIN fsys /\ fsys[q].kind # "dir"
       THEN [ok |-> FALSE, fs |-> fsys]
       ELSE [ok |-> TRUE,
             fs |-> [q \in DOMAIN fsys \cup prefixes |->
                        IF q \in DOMAIN fsys THEN fsys[q] ELSE DirNode]]

----------------------------------------------------------------------------
(* The conversion engine: core.py *)

\* What the imaging library and the OS do in one conversion:
\*   open    the output file can be opened for writing
\*   write   encoding and writing complete
\*   keep    after a failed write the truncated output file is left behind
\*   size    the size of the encoded output
\*   unlink  the original can be removed
Envs ==
    {e \in [open : BOOLEAN, write : BOOLEAN, keep : BOOLEAN, size : 1..MaxSize,
            unlink : BOOLEAN] :
        \* the fields an earlier failure leaves unread are fixed
        /\ ~e.open => e.write
        /\ e.write => e.keep
        /\ ~(e.open /\ e.write) => e.size = 1 /\ e.unlink}

ConversionResult(success, message, input_size, output_size, saved_bytes) ==
    [success |-> success, message |-> message, input_size |-> input_size,
     output_size |-> output_size, saved_bytes |-> saved_bytes]

PathInput(p) == [kind |-> "path", path |-> p, size |-> 0, good |-> FALSE]
BytesInput(size, good) == [kind |-> "bytes", path |-> <<>>, size |-> size, good |-> good]

\* Image.open(...) then img.save(output_path, "WEBP", ...): the error text,
\* <<>> for none, and the filesystem afterwards.  A decode error is raised
\* before the output is opened; an open error leaves the output as it was;
\* a write error leaves it truncated, or removes it when save created it.
OpenAndSave(fsys, good, shown, output_path, env) ==
    IF ~good
    THEN [err |-> ERR_IDENTIFY \o shown, fs |-> fsys]
    ELSE IF ~env.open \/ (output_path \in DOMAIN fsys /\ fsys[output_path].kind # "file")
    THEN [err |-> ERR_EACCES \o Quoted(PathStr(output_path)), fs |-> fsys]
    ELSE IF ~env.write
    THEN [err |-> ERR_ENOSPC,
          fs |-> IF output_path \in DOMAIN fsys \/ env.keep
                 THEN PutNode(fsys, output_path, FileNode(0, FALSE))
                 ELSE fsys]
    ELSE [err |-> <<>>, fs |-> PutNode(fsys, output_path, FileNode(env.size, TRUE))]

\* convert_image without the check of an existing output
convert_image_unchecked(fsys, input_data, output_path, quality, overwrite, env) ==
    LET isPath == input_data.kind = "path"
        input_size == IF isPath THEN StSize(fsys, input_data.path) ELSE input_data.size
        good == IF isPath THEN fsys[input_data.path].good ELSE input_data.good
        shown == IF isPath THEN Quoted(PathStr(input_data.path)) ELSE BYTESIO_REPR
        saved == OpenAndSave(fsys, good, shown, output_path, env)
    IN IF saved.err = <<>>
       THEN [res |-> ConversionResult(TRUE, MSG_SUCCESS, input_size,
                                      StSize(saved.fs, output_path),
                                      input_size - StSize(saved.fs, output_path)),
             fs |-> saved.fs]
       ELSE [res |-> ConversionResult(FALSE, MSG_ERROR \o saved.err, 0, 0, 0),
             fs |-> saved.fs]

\* convert_image with the except clause taken away from img.save: a write
\* error is not turned into a failure result, and the call reports what the
\* output path then holds
convert_image_write_uncaught(fsys, input_data, output_path, quality, overwrite, env) ==
    LET c == convert_image_unchecked(fsys, input_data, output_path, quality, overwrite, env)
    IN IF PathExists(fsys, output_path) /\ ~overwrite
       THEN [res |-> ConversionResult(FALSE, MSG_EXISTS, 0, 0, 0), fs |-> fsys]
       ELSE IF ~c.res.success /\ Contains(c.res.message, ERR_ENOSPC)
                /\ PathExists(c.fs, output_path)
       THEN [res |-> ConversionResult(TRUE, MSG_SUCCESS, 0, StSize(c.fs, output_path),
                                      0 - StSize(c.fs, output_path)),
             fs |-> c.fs]
       ELSE c

\* convert_image(input_data, output_path, quality, overwrite)
convert_image(fsys, input_data, output_path, quality, overwrite, env) ==
    IF PathExists(fsys, output_path) /\ ~overwrite
    THEN [res |-> ConversionResult(FALSE, MSG_EXISTS, 0, 0, 0), fs |-> fsys]
    ELSE
      LET isPath == input_data.kind = "path"
          input_size == IF isPath THEN StSize(fsys, input_data.path) ELSE input_data.size
          good == IF isPath THEN fsys[input_data.path].good ELSE input_data.good
          shown == IF isPath THEN Quoted(PathStr(input_data.path)) ELSE BYTESIO_REPR
          saved == OpenAndSave(fsys, good, shown, output_path, env)
      IN IF saved.err = <<>>
         THEN LET output_size == StSize(saved.fs, output_path)
              IN [res |-> ConversionResult(TRUE, MSG_SUCCESS, input_size, output_size,
                                           input_size - output_size),
                  fs |-> saved.fs]
         ELSE [res |-> ConversionResult(FALSE, MSG_ERROR \o saved.err, 0, 0, 0),
               fs |-> saved.fs]

\* the record of a convert_image call
NoCall ==
    [called |-> FALSE, input |-> BytesInput(0, FALSE), output_path |-> <<>>,
     quality |-> 0, overwrite |-> FALSE, res |-> ConversionResult(FALSE, <<>>, 0, 0, 0),
     pre |-> <<>>, post |-> <<>>]

Call(input, output_path, quality, overwrite, res, pre, post) ==
    [called |-> TRUE, input |-> input, output_path |-> output_path,
     quality |-> quality, overwrite |-> overwrite, res |-> res, pre |-> pre, post |-> post]

----------------------------------------------------------------------------
(* The upload handler: webp_uploader/app.py (legacy) and                   *)
(* imgtowebp/web/app.py (package)                                          *)

\* create_app(Path(args.output_dir).resolve())
OUTPUT_DIR == <<<<"o","u","t">>>>

\* werkzeug.utils.secure_filename: separators become spaces, the words are
\* joined by "_", characters outside [A-Za-z0-9_.-] are dropped, and leading
\* and trailing "." and "_" are stripped
RECURSIVE StripDotUnderscoreLeft(_)
StripDotUnderscoreLeft(s) ==
    IF s # <<>> /\ Head(s) \in {".", "_"} THEN StripDotUnderscoreLeft(Tail(s)) ELSE s
RECURSIVE StripDotUnderscoreRight(_)
StripDotUnderscoreRight(s) ==
    IF s # <<>> /\ s[Len(s)] \in {".", "_"}
    THEN StripDotUnderscoreRight(SubSeq(s, 1, Len(s) - 1))
    ELSE s
secure_filename(filename) ==
    LET spaced == [i \in DOMAIN filename |->
                      IF filename[i] = "/" THEN " " ELSE filename[i]]
        words == SelectSeq(Split(spaced, " "), LAMBDA w : w # <<>>)
        joined == Join(words, <<"_">>)
        kept == SelectSeq(joined, LAMBDA c : IsAlnum(c) \/ c \in {"_", ".", "-"})
    IN StripDotUnderscoreRight(StripDotUnderscoreLeft(kept))

\* safe_subdir that keeps the ".." parts
safe_subdir_keep_parents(subdir) ==
    LET stripped == Strip(subdir)
        candidate == PathOf(stripped)
    IN IF stripped = <<>> THEN <<>>
       ELSE IF candidate.abs THEN <<>>
       ELSE SelectSeq(candidate.parts, LAMBDA part : part \notin {<<>>, DOT})

\* safe_subdir: web/app.py:40-55, webp_uploader/app.py:34-52
safe_subdir(subdir) ==
    LET stripped == Strip(subdir)
        candidate == PathOf(stripped)
    IN IF stripped = <<>> THEN <<>>
       ELSE IF candidate.abs THEN <<>>
       ELSE SelectSeq(candidate.parts, LAMBDA part : part \notin {<<>>, DOT, DOTDOT})

\* int(s) of Python: surrounding whitespace, a sign, digits with single
\* underscores between them; ok is FALSE for ValueError
RECURSIVE DigitsValue(_, _)
DigitsValue(s, acc) ==
    IF s = <<>> THEN acc
    ELSE IF Head(s) = "_" THEN DigitsValue(Tail(s), acc)
    ELSE DigitsValue(Tail(s), 10 * acc + DigitVal(Head(s)))
IsDigitString(s) ==
    /\ s # <<>>
    /\ \A i \in DOMAIN s : IsDigit(s[i]) \/ s[i] = "_"
    /\ IsDigit(s[1]) /\ IsDigit(s[Len(s)])
    /\ \A i \in 1..(Len(s) - 1) : ~(s[i] = "_" /\ s[i + 1] = "_")
PyInt(raw) ==
    LET s == Strip(raw)
        signed == s # <<>> /\ Head(s) \in {"-", "+"}
        body == IF signed THEN Tail(s) ELSE s
    IN IF ~IsDigitString(body) THEN [ok |-> FALSE, value |-> 0]
       ELSE IF signed /\ Head(s) = "-"
       THEN [ok |-> TRUE, value |-> 0 - DigitsValue(body, 0)]
       ELSE [ok |-> TRUE, value |-> DigitsValue(body, 0)]

\* str(n) for n >= 0
RECURSIVE PyStr(_)
PyStr(n) == IF n < 10 THEN <<Digits[n + 1]>> ELSE Append(PyStr(n \div 10), Digits[(n % 10) + 1])

\* Clamp without the upper limit
ClampLowerOnly(quality, v) == IF quality < 0 THEN 0 ELSE quality

\* the quality of a request: lines 74-83 (package), 78-90 (legacy)
Clamp(quality, v) ==
    IF v = "package"
    THEN LET m == IF 100 < quality THEN 100 ELSE quality
         IN IF 0 > m THEN 0 ELSE m
    ELSE LET q0 == IF quality < 0 THEN 0 ELSE quality
         IN IF q0 > 100 THEN 100 ELSE q0
RequestQuality(hasQuality, field, v) ==
    LET quality_raw == IF hasQuality THEN field ELSE PyStr(DEFAULT_QUALITY)
        parsed == PyInt(quality_raw)
    IN Clamp(IF parsed.ok THEN parsed.value ELSE DEFAULT_QUALITY, v)

\* TargetDir without the containment check
TargetDirUnchecked(fsys, subdir) == Resolve(fsys, OUTPUT_DIR \o subdir)

\* the directory a request writes into: lines 92-95 (package), 99-101 (legacy)
TargetDir(fsys, subdir) ==
    LET target_dir == Resolve(fsys, OUTPUT_DIR \o subdir)
        root == Resolve(fsys, OUTPUT_DIR)
    IN IF root \notin Parents(target_dir) /\ target_dir # root THEN root ELSE target_dir

NoReq == [files |-> <<>>, quality |-> <<>>, hasQuality |-> FALSE,
          overwrite |-> <<>>, subdir |-> <<>>]
NoUp == [quality |-> 0, overwrite |-> FALSE, subdir |-> <<>>, target_dir |-> <<>>,
         idx |-> 0, total_in |-> 0, total_out |-> 0, converted |-> 0,
         skipped |-> 0, failed |-> 0, results |-> <<>>, causes |-> <<>>,
         files_received |-> 0]

UploadItemResult(original_name, status, message, output_relpath, input_bytes, output_bytes) ==
    [original_name |-> original_name, status |-> status, message |-> message,
     output_relpath |-> output_relpath, input_bytes |-> input_bytes,
     output_bytes |-> output_bytes]

MSG_UNSUPPORTED == <<"U","n","s","u","p","p","o","r","t","e","d">>
MSG_EMPTY == <<"E","m","p","t","y">>
MSG_SAVED == <<"S","a","v","e","d",".">>
MSG_OUTPUT_EXISTS == <<"O","u","t","p","u","t"," ","e","x","i","s","t","s">>

\* out_path.relative_to(output_dir)
RelativeTo(path, base) == SubSeq(path, Len(base) + 1, Len(path))

\* what happens to one entry with a filename, told from the inputs and the
\* environment alone
Cause(fsys, target_dir, overwrite, f, env) ==
    LET safe_name == secure_filename(f.filename)
        out_path == Append(target_dir, Stem(safe_name) \o WEBP)
    IN IF Lower(Suffix(safe_name)) \notin SUPPORTED_EXTENSIONS THEN "unsupported"
       ELSE IF f.data.size = 0 THEN "empty"
       ELSE IF PathExists(fsys, out_path) /\ ~overwrite THEN "exists"
       ELSE IF ~f.data.good THEN "decode error"
       ELSE IF ~env.open \/ (out_path \in DOMAIN fsys /\ fsys[out_path].kind # "file")
       THEN "open error"
       ELSE IF ~env.write THEN "write error"
       ELSE "converted"

\* the loop body for one entry, package: web/app.py:100-150
upload_body_package(fsys, u, f, env) ==
    LET original_name == f.filename
        safe_name == secure_filename(original_name)
        ext == Lower(Suffix(safe_name))
        stem == Stem(safe_name)
        out_path == Append(u.target_dir, stem \o WEBP)
        c == convert_image(fsys, BytesInput(f.data.size, f.data.good), out_path,
                           u.quality, u.overwrite, env)
        rel == RelativeTo(out_path, OUTPUT_DIR)
    IN
    IF original_name = <<>>
    THEN [fs |-> fsys, call |-> NoCall, up |-> u]
    ELSE IF ext \notin SUPPORTED_EXTENSIONS
    THEN [fs |-> fsys, call |-> NoCall,
          up |-> [u EXCEPT !.skipped = @ + 1,
                           !.results = Append(@, UploadItemResult(original_name,
                                "skipped", MSG_UNSUPPORTED, <<>>, 0, 0))]]
    ELSE IF f.data.size = 0
    THEN [fs |-> fsys, call |-> NoCall,
          up |-> [u EXCEPT !.skipped = @ + 1,
                           !.results = Append(@, UploadItemResult(original_name,
                                "skipped", MSG_EMPTY, <<>>, 0, 0))]]
    ELSE
      LET call == Call(BytesInput(f.data.size, f.data.good), out_path, u.quality,
                       u.overwrite, c.res, fsys, c.fs)
      IN IF c.res.success
         THEN [fs |-> c.fs, call |-> call,
               up |-> [u EXCEPT !.total_in = @ + c.res.input_size,
                                 !.total_out = @ + c.res.output_size,
                                 !.converted = @ + 1,
                                 !.results = Append(@, UploadItemResult(original_name,
                                      "converted", MSG_SAVED, rel, c.res.input_size,
                                      c.res.output_size))]]
         ELSE IF Contains(c.res.message, EXISTS)
         THEN [fs |-> c.fs, call |-> call,
               up |-> [u EXCEPT !.skipped = @ + 1,
                                 !.results = Append(@, UploadItemResult(original_name,
                                      "skipped", c.res.message, rel, 0, 0))]]
         ELSE [fs |-> c.fs, call |-> call,
               up |-> [u EXCEPT !.failed = @ + 1,
                                 !.results = Append(@, UploadItemResult(original_name,
                                      "failed", c.res.message, <<>>, 0, 0))]]

\* the loop body for one entry, legacy: webp_uploader/app.py:106-178
upload_body_legacy(fsys, u, f, env) ==
    LET original_name == f.filename
        safe_name == secure_filename(original_name)
        ext == Lower(Suffix(safe_name))
        stem == Stem(safe_name)
        out_path == Append(u.target_dir, stem \o WEBP)
        rel == RelativeTo(out_path, OUTPUT_DIR)
    IN
    IF original_name = <<>>
    THEN [fs |-> fsys, call |-> NoCall, up |-> u]
    ELSE IF ext \notin SUPPORTED_EXTENSIONS
    THEN [fs |-> fsys, call |-> NoCall,
          up |-> [u EXCEPT !.skipped = @ + 1,
                           !.results = Append(@, UploadItemResult(original_name,
                                "skipped", MSG_UNSUPPORTED, <<>>, 0, 0))]]
    ELSE IF PathExists(fsys, out_path) /\ ~u.overwrite
    THEN [fs |-> fsys, call |-> NoCall,
          up |-> [u EXCEPT !.skipped = @ + 1,
                           !.results = Append(@, UploadItemResult(original_name,
                                "skipped", MSG_OUTPUT_EXISTS, rel, 0, 0))]]
    ELSE IF f.data.size = 0
    THEN [fs |-> fsys, call |-> NoCall,
          up |-> [u EXCEPT !.skipped = @ + 1,
                           !.results = Append(@, UploadItemResult(original_name,
                                "skipped", MSG_EMPTY, <<>>, 0, 0))]]
    ELSE
      LET saved == OpenAndSave(fsys, f.data.good, BYTESIO_REPR, out_path, env)
          u1 == [u EXCEPT !.total_in = @ + f.data.size]
      IN IF saved.err = <<>>
         THEN LET out_size == StSize(saved.fs, out_path)
              IN [fs |-> saved.fs, call |-> NoCall,
                  up |-> [u1 EXCEPT !.total_out = @ + out_size,
                                    !.converted = @ + 1,
                                    !.results = Append(@, UploadItemResult(
                                         original_name, "converted", MSG_SAVED, rel,
                                         f.data.size, out_size))]]
         ELSE [fs |-> saved.fs, call |-> NoCall,
               up |-> [u1 EXCEPT !.failed = @ + 1,
                                 !.results = Append(@, UploadItemResult(original_name,
                                      "failed", saved.err, <<>>, 0, 0))]]

\* the overwrite checkbox: "on" when ticked, absent otherwise
ON == <<"o","n">>
OverwriteFields == {ON, <<>>}

\* upload(), up to the loop over the files
UploadBegin(Files, Qualities, Overwrites, Subdirs) ==
    /\ mode = "web" /\ pc = "idle"
    /\ \E files \in Files, q \in Qualities, ow \in Overwrites, sd \in Subdirs :
         LET subdir == safe_subdir(sd)
             target_dir == TargetDir(fs, subdir)
             made == MkdirP(fs, target_dir)
         IN /\ req' = [files |-> files, quality |-> q.field, hasQuality |-> q.has,
                       overwrite |-> ow, subdir |-> sd]
            /\ up' = [NoUp EXCEPT !.quality = RequestQuality(q.has, q.field, variant),
                                  !.overwrite = (ow = ON),
                                  !.subdir = subdir,
                                  !.target_dir = target_dir,
                                  !.idx = 1]
            /\ pc' = IF made.ok THEN "files" ELSE "error"
            /\ fs' = made.fs
    /\ UNCHANGED <<mode, variant, fs0, args, pending, stats, outcome, exit, lastCall>>

\* one iteration of `for f in files`; causes keeps, for each result, what
\* happened to the entry
UploadFile ==
    /\ mode = "web" /\ pc = "files" /\ up.idx <= Len(req.files)
    /\ \E env \in {e \in Envs : e.unlink} :
         LET f == req.files[up.idx]
             r == IF variant = "package" THEN upload_body_package(fs, up, f, env)
                  ELSE upload_body_legacy(fs, up, f, env)
         IN /\ fs' = r.fs
            /\ up' = [r.up EXCEPT
                        !.idx = @ + 1,
                        !.causes = IF Len(r.up.results) > Len(up.results)
                                   THEN Append(@, Cause(fs, up.target_dir,
                                                        up.overwrite, f, env))
                                   ELSE @]
            /\ lastCall' = IF r.call.called THEN r.call ELSE lastCall
    /\ UNCHANGED <<mode, variant, pc, fs0, args, pending, stats, outcome, exit, req>>

\* the summary and the response
UploadFinish ==
    /\ mode = "web" /\ pc = "files" /\ up.idx > Len(req.files)
    /\ pc' = "responded"
    /\ up' = [up EXCEPT !.files_received = Len(req.files)]
    /\ UNCHANGED <<mode, variant, fs, fs0, args, pending, stats, outcome, exit,
                   req, lastCall>>

\* The requests and the output trees an upload starts from
ETC == <<<<"e","t","c">>>>
WebBase == (OUTPUT_DIR :> DirNode) @@ (ETC :> DirNode)

UploadNames ==
    {<<>>, <<"a">> \o JPG, EXISTS \o <<".","P","N","G">>, <<"a">> \o TXT}
UploadData ==
    {[size |-> 0, good |-> FALSE], [size |-> 1, good |-> FALSE]}
        \cup {[size |-> n, good |-> TRUE] : n \in 1..MaxSize}
UploadEntries ==
    {[filename |-> n, data |-> d] : n \in UploadNames \ {<<>>}, d \in UploadData}
        \cup {[filename |-> <<>>, data |-> [size |-> 0, good |-> FALSE]]}
UploadFiles == UNION {[1..k -> UploadEntries] : k \in 0..MaxUploads}

\* one well-formed image under a name with directory components
OneFile ==
    {<<[filename |-> <<".", ".", "/", "a">> \o JPG, data |-> [size |-> 1, good |-> TRUE]]>>}

NoQuality == {[has |-> FALSE, field |-> <<>>]}
QualityFields ==
    NoQuality \cup
    {[has |-> TRUE, field |-> f] :
        f \in StringsUpTo({"-", "+", "_", " ", "0", "1", "5", "x"}, MaxQualityLen)}

\* the subdir field "../../etc"
TRAVERSAL == <<".", ".", "/", ".", ".", "/", "e", "t", "c">>
SubdirFields == StringsUpTo({"/", ".", " ", "a", "l"}, MaxSubdirLen) \cup {TRAVERSAL}

\* the output root with or without a.webp and exists.webp in it
UploadTrees ==
    {f @@ WebBase :
        f \in UNION {[S -> {FileNode(1, TRUE)}] :
                        S \in SUBSET {Append(OUTPUT_DIR, <<"a">> \o WEBP),
                                      Append(OUTPUT_DIR, EXISTS \o WEBP)}}}

\* the output root with a name "a" (absent, a directory or a file) and a
\* name "l" (absent or a link to /etc, to /out/a or to /)
SubdirTrees ==
    {a @@ l @@ WebBase :
        a \in {<<>>} \cup {Append(OUTPUT_DIR, <<"a">>) :> n :
                              n \in {DirNode, FileNode(1, TRUE)}},
        l \in {<<>>} \cup {Append(OUTPUT_DIR, <<"l">>) :> LinkNode(t) :
                              t \in {ETC, Append(OUTPUT_DIR, <<"a">>), <<>>}}}

----------------------------------------------------------------------------
(* The batch run: convert_to_webp.py (legacy) and imgtowebp/cli.py (package) *)

DIRECTORY == <<<<"d">>>>
SUBDIRECTORY == <<<<"d">>, <<"s">>>>

ConversionStats ==
    [scanned |-> 0, eligible |-> 0, converted |-> 0, skipped_existing |-> 0,
     deleted_originals |-> 0, failed |-> 0, total_input_bytes |-> 0,
     total_output_bytes |-> 0, total_deleted_bytes |-> 0]

Name(path) == path[Len(path)]

\* convert_to_webp.py: to_webp_path
to_webp_path(src_path) == WithSuffix(src_path, WEBP)

\* convert_to_webp.py: should_convert; the filter of cli.py's iter_images
should_convert(path) == Lower(Suffix(Name(path))) \in SUPPORTED_EXTENSIONS

\* directory.rglob("*") / directory.glob("*"): the entries listed
Listing(fsys, directory, recursive) ==
    {p \in DOMAIN fsys :
        /\ Len(p) > Len(directory)
        /\ SubSeq(p, 1, Len(directory)) = directory
        /\ recursive \/ Len(p) = Len(directory) + 1}

\* cli.py:85  len([f for f in directory.iterdir() if f.is_file()])
IterdirFiles(fsys, directory) ==
    {p \in DOMAIN fsys :
        /\ Len(p) = Len(directory) + 1
        /\ SubSeq(p, 1, Len(directory)) = directory
        /\ IsFile(fsys, p)}

\* what one iteration returns: the filesystem, the statistics, the
\* convert_image call made, the branch taken, whether unlink was called, and
\* whether an exception left the loop
Handled(fsys, st, call, status, unlinkTried) ==
    [fs |-> fsys, stats |-> st, call |-> call, status |-> status,
     unlinkTried |-> unlinkTried, raised |-> FALSE]

SizeOrAbsent(fsys, p) == IF p \in DOMAIN fsys THEN fsys[p].size ELSE -1

\* src_path.unlink() and the two counters, or the except branch:
\* convert_to_webp.py:86-98 and 114-121 count the failure, cli.py:105-112 and
\* 118-125 only print it
DeleteOriginal(fsys, st, src_path, src_size, env, countFailure) ==
    IF env.unlink
    THEN [fs |-> Unlink(fsys, src_path),
          stats |-> [st EXCEPT !.deleted_originals = @ + 1,
                               !.total_deleted_bytes = @ + src_size]]
    ELSE [fs |-> fsys,
          stats |-> IF countFailure THEN [st EXCEPT !.failed = @ + 1] ELSE st]

\* convert_to_webp.py: convert_one
convert_one(fsys, st, src_path, a, env) ==
    LET s1 == [st EXCEPT !.scanned = @ + 1]
        s2 == [s1 EXCEPT !.eligible = @ + 1]
        dst_path == to_webp_path(src_path)
    IN
    IF ~should_convert(src_path)
    THEN Handled(fsys, s1, NoCall, "ineligible", FALSE)
    ELSE IF PathExists(fsys, dst_path) /\ ~a.overwrite
    THEN
      LET s3 == [s2 EXCEPT !.skipped_existing = @ + 1]
      IN IF a.replace /\ StSize(fsys, dst_path) > 0
         THEN LET d == DeleteOriginal(fsys, s3, src_path, StSize(fsys, src_path),
                                      env, TRUE)
              IN Handled(d.fs, d.stats, NoCall, "skipped", TRUE)
         ELSE Handled(fsys, s3, NoCall, "skipped", FALSE)
    ELSE
      LET src_size == StSize(fsys, src_path)
          saved == OpenAndSave(fsys, fsys[src_path].good, Quoted(PathStr(src_path)),
                               dst_path, env)
      IN IF saved.err # <<>>
         THEN Handled(saved.fs, [s2 EXCEPT !.failed = @ + 1], NoCall, "failed", FALSE)
         ELSE
           LET s3 == [s2 EXCEPT !.total_input_bytes = @ + src_size,
                                !.total_output_bytes = @ + StSize(saved.fs, dst_path),
                                !.converted = @ + 1]
           IN IF a.replace
              THEN LET d == DeleteOriginal(saved.fs, s3, src_path, src_size, env, TRUE)
                   IN Handled(d.fs, d.stats, NoCall, "converted", TRUE)
              ELSE Handled(saved.fs, s3, NoCall, "converted", FALSE)

\* cli.py: the body of run_cli's loop, lines 88-128
run_cli_body(fsys, st, src_path, a, env) ==
    LET s1 == [st EXCEPT !.eligible = @ + 1]
        dst_path == WithSuffix(src_path, WEBP)
        c == convert_image(fsys, PathInput(src_path), dst_path, a.quality,
                           a.overwrite, env)
        call == Call(PathInput(src_path), dst_path, a.quality, a.overwrite, c.res,
                     fsys, c.fs)
    IN
    IF c.res.success
    THEN
      LET s2 == [s1 EXCEPT !.converted = @ + 1,
                           !.total_input_bytes = @ + c.res.input_size,
                           !.total_output_bytes = @ + c.res.output_size]
      IN IF a.replace
         THEN LET d == DeleteOriginal(c.fs, s2, src_path, StSize(c.fs, src_path),
                                      env, FALSE)
              IN Handled(d.fs, d.stats, call, "converted", TRUE)
         ELSE Handled(c.fs, s2, call, "converted", FALSE)
    ELSE IF Contains(c.res.message, EXISTS)
    THEN
      LET s2 == [s1 EXCEPT !.skipped_existing = @ + 1]
      IN IF a.replace
         THEN LET d == DeleteOriginal(c.fs, s2, src_path, StSize(c.fs, src_path),
                                      env, FALSE)
              IN Handled(d.fs, d.stats, call, "skipped", TRUE)
         ELSE Handled(c.fs, s2, call, "skipped", FALSE)
    ELSE Handled(c.fs, [s1 EXCEPT !.failed = @ + 1], call, "failed", FALSE)

\* QualityRejected without the lower limit
QualityRejectedUpperOnly(quality) == quality > 100

\* main, lines 215-216; run_cli, lines 79-81
QualityRejected(quality) == quality < 0 \/ quality > 100

\* what the rejection writes to stderr
QualityMessage(v) ==
    IF v = "package" THEN "Error: --quality must be between 0 and 100"
    ELSE "--quality must be within 0..100"

\* the statistics before the loop: cli.py:83-85, convert_to_webp.py:135
InitialStats(fsys, v) ==
    IF v = "package"
    THEN [ConversionStats EXCEPT
            !.scanned = Cardinality(IterdirFiles(fsys, DIRECTORY))]
    ELSE ConversionStats

\* HandleEntry deleting originals whether or not replace is asked for
HandleEntryAlwaysReplace(fsys, st, v, p, a, env) ==
    IF ~IsFile(fsys, p) \/ (v = "package" /\ ~should_convert(p))
    THEN Handled(fsys, st, NoCall, "not yielded", FALSE)
    ELSE IF v = "legacy" THEN convert_one(fsys, st, p, [a EXCEPT !.replace = TRUE], env)
    ELSE run_cli_body(fsys, st, p, [a EXCEPT !.replace = TRUE], env)

\* HandleEntry with a conversion error leaving the loop uncaught
HandleEntryUncaught(fsys, st, v, p, a, env) ==
    LET r == IF ~IsFile(fsys, p) \/ (v = "package" /\ ~should_convert(p))
             THEN Handled(fsys, st, NoCall, "not yielded", FALSE)
             ELSE IF v = "legacy" THEN convert_one(fsys, st, p, a, env)
             ELSE run_cli_body(fsys, st, p, a, env)
    IN IF r.status = "failed" THEN [r EXCEPT !.raised = TRUE, !.stats = st] ELSE r

\* one entry of the listing: iter_images, then the loop body
HandleEntry(fsys, st, v, p, a, env) ==
    IF ~IsFile(fsys, p) \/ (v = "package" /\ ~should_convert(p))
    THEN Handled(fsys, st, NoCall, "not yielded", FALSE)
    ELSE IF v = "legacy" THEN convert_one(fsys, st, p, a, env)
    ELSE run_cli_body(fsys, st, p, a, env)

NoExit == [code |-> -1, stderr |-> ""]

\* main / run_cli up to the loop
BatchStart ==
    /\ mode = "batch" /\ pc = "start"
    /\ IF QualityRejected(args.quality)
       THEN /\ pc' = "exit"
            /\ exit' = [code |-> 1, stderr |-> QualityMessage(variant)]
            /\ UNCHANGED <<stats, pending>>
       ELSE /\ pc' = "loop"
            /\ stats' = InitialStats(fs, variant)
            /\ pending' = Listing(fs, DIRECTORY, args.recursive)
            /\ UNCHANGED exit
    /\ UNCHANGED <<mode, variant, fs, fs0, args, outcome, req, up, lastCall>>

\* one iteration of the loop over iter_images; outcome keeps, for the entry,
\* the branch taken and what the filesystem and the statistics were before
\* and after
BatchStep ==
    /\ mode = "batch" /\ pc = "loop" /\ pending # {}
    /\ \E p \in pending, env \in Envs :
         LET r == HandleEntry(fs, stats, variant, p, args, env)
             dst == to_webp_path(p)
         IN /\ fs' = r.fs
            /\ stats' = r.stats
            /\ outcome' = (p :> [status |-> r.status,
                                 unlinkTried |-> r.unlinkTried,
                                 dstBefore |-> SizeOrAbsent(fs, dst),
                                 dstAfter |-> SizeOrAbsent(r.fs, dst),
                                 srcAfter |-> p \in DOMAIN r.fs,
                                 pre |-> stats,
                                 post |-> r.stats]) @@ outcome
            /\ lastCall' = IF r.call.called THEN r.call ELSE lastCall
            /\ pending' = pending \ {p}
            /\ pc' = IF r.raised THEN "crashed" ELSE pc
            /\ exit' = IF r.raised THEN [code |-> 1, stderr |-> "Traceback"] ELSE exit
    /\ UNCHANGED <<mode, variant, fs0, args, req, up>>

\* the listing is exhausted: print_summary, exit status 0
BatchFinish ==
    /\ mode = "batch" /\ pc = "loop" /\ pending = {}
    /\ pc' = "done"
    /\ exit' = [code |-> 0, stderr |-> ""]
    /\ UNCHANGED <<mode, variant, fs, fs0, args, pending, stats, outcome, req, up,
                   lastCall>>

BatchNext == BatchStart \/ BatchStep \/ BatchFinish

\* The directory trees a run starts from: at most MaxFiles files under
\* DIRECTORY and SUBDIRECTORY
BatchNames ==
    {<<"a">> \o JPG, <<"a">> \o <<".","P","N","G">>, <<"a">> \o WEBP, EXISTS \o JPG}
BatchPaths ==
    {Append(DIRECTORY, n) : n \in BatchNames}
        \cup {Append(SUBDIRECTORY, <<"a">> \o ext) : ext \in {JPG, WEBP}}
NodeChoices(p) ==
    IF should_convert(p)
    THEN {FileNode(size, TRUE) : size \in 1..MaxSize} \cup {FileNode(1, FALSE)}
    ELSE {FileNode(0, FALSE), FileNode(MaxSize, TRUE)}
\* the directories above the files of S
DirsOf(S) ==
    [d \in {DIRECTORY} \cup {SubSeq(p, 1, Len(p) - 1) : p \in S} |-> DirNode]
AllFileNodes == {FileNode(size, good) : size \in 0..MaxSize, good \in BOOLEAN}
BatchTrees ==
    UNION {{f @@ DirsOf(S) : f \in {g \in [S -> AllFileNodes] :
                                     \A p \in S : g[p] \in NodeChoices(p)}} :
           S \in {T \in SUBSET BatchPaths : Cardinality(T) <= MaxFiles}}

BatchQualities == {-1, DEFAULT_QUALITY, 101}

BatchInit ==
    /\ mode = "batch"
    /\ variant \in {"legacy", "package"}
    /\ pc = "start"
    /\ fs \in BatchTrees
    /\ fs0 = fs
    /\ args \in [quality : BatchQualities, recursive : BOOLEAN,
                 overwrite : BOOLEAN, replace : BOOLEAN]
    /\ pending = {}
    /\ stats = ConversionStats
    /\ outcome = <<>>
    /\ exit = NoExit
    /\ req = NoReq
    /\ up = NoUp
    /\ lastCall = NoCall

SpecBatch == BatchInit /\ [][BatchNext]_vars

----------------------------------------------------------------------------
(* Specifications *)

UploadInitWith(Trees) ==
    /\ mode = "web"
    /\ variant \in {"legacy", "package"}
    /\ pc = "idle"
    /\ fs \in Trees
    /\ fs0 = fs
    /\ args = [quality |-> DEFAULT_QUALITY, recursive |-> FALSE,
               overwrite |-> FALSE, replace |-> FALSE]
    /\ pending = {}
    /\ stats = ConversionStats
    /\ outcome = <<>>
    /\ exit = NoExit
    /\ req = NoReq
    /\ up = NoUp
    /\ lastCall = NoCall

UploadNext ==
    \/ UploadBegin(UploadFiles, NoQuality, OverwriteFields, {<<>>})
    \/ UploadFile
    \/ UploadFinish

SubdirNext ==
    \/ UploadBegin(OneFile, NoQuality, {ON}, SubdirFields)
    \/ UploadFile
    \/ UploadFinish

QualityNext ==
    \/ UploadBegin(OneFile, QualityFields, {ON}, {<<>>})
    \/ UploadFile
    \/ UploadFinish

SpecUpload == UploadInitWith(UploadTrees) /\ [][UploadNext]_vars

SpecSubdir == UploadInitWith(SubdirTrees) /\ [][SubdirNext]_vars

SpecQuality == UploadInitWith(UploadTrees) /\ [][QualityNext]_vars

Init == BatchInit \/ UploadInitWith(UploadTrees)

Next == BatchNext \/ UploadNext

Spec == Init /\ [][Next]_vars

----------------------------------------------------------------------------
(* Claims *)

\* the files of the tree a run started from that the enumeration yields as
\* eligible
EligibleYielded ==
    {p \in Listing(fs0, DIRECTORY, args.recursive) :
        IsFile(fs0, p) /\ should_convert(p)}

\* C1: after any batch run, scanned >= eligible >= converted +
\* skipped_existing + failed.
C1_StatsOrdered ==
    (mode = "batch" /\ pc = "done") =>
        /\ stats.scanned >= stats.eligible
        /\ stats.eligible >= stats.converted + stats.skipped_existing + stats.failed

\* C2: whatever the subdir field holds, the directory an upload request
\* creates and writes into is the output root or lies below it: everything
\* the request creates or changes is, with links followed, inside the root.
InRoot(p) == p = OUTPUT_DIR \/ OUTPUT_DIR \in Parents(p)
Changed ==
    {p \in DOMAIN fs \cup DOMAIN fs0 :
        p \notin DOMAIN fs0 \/ p \notin DOMAIN fs \/ fs[p] # fs0[p]}
C2_WritesStayInRoot ==
    (mode = "web" /\ pc # "idle") =>
        /\ InRoot(up.target_dir)
        /\ InRoot(Resolve(fs0, up.target_dir))
        /\ \A p \in Changed :
             /\ InRoot(Resolve(fs0, p))
             /\ (p \in DOMAIN fs /\ fs[p].kind = "file") =>
                   SubSeq(p, 1, Len(p) - 1) = up.target_dir
C2_Witness ==
    /\ mode = "web" /\ pc = "responded"
    /\ ~InRoot(Resolve(fs0, OUTPUT_DIR \o safe_subdir(req.subdir)))
    /\ \E p \in Changed : p \in DOMAIN fs /\ fs[p].kind = "file"

\* C3: with overwrite off, an eligible file whose .webp exists is counted in
\* skipped_existing and not converted, the .webp stays as it was; with
\* replace on and a non-empty .webp the original is deleted and counted
\* (unless the deletion fails); with an empty .webp, or with replace off, the
\* original stays.
C3_SkipExisting ==
    \A p \in DOMAIN outcome :
        LET o == outcome[p]
        IN (IsFile(fs0, p) /\ should_convert(p) /\ o.dstBefore >= 0 /\ ~args.overwrite) =>
             /\ o.post.skipped_existing = o.pre.skipped_existing + 1
             /\ o.post.converted = o.pre.converted
             /\ o.dstAfter = o.dstBefore
             /\ (args.replace /\ o.dstBefore > 0) =>
                   \/ /\ ~o.srcAfter
                      /\ o.post.deleted_originals = o.pre.deleted_originals + 1
                      /\ o.post.total_deleted_bytes =
                            o.pre.total_deleted_bytes + fs0[p].size
                   \/ /\ o.srcAfter /\ o.unlinkTried
                      /\ o.post.deleted_originals = o.pre.deleted_originals
             /\ (~args.replace \/ o.dstBefore = 0) =>
                   /\ o.srcAfter
                   /\ o.post.deleted_originals = o.pre.deleted_originals
                   /\ o.post.total_deleted_bytes = o.pre.total_deleted_bytes

\* C4: when deleting an original fails, failed is incremented, the run goes
\* on, and a conversion that succeeded before still counts in converted and
\* in the byte totals.
C4_DeletionFailureCounted ==
    \A p \in DOMAIN outcome :
        LET o == outcome[p]
        IN (args.replace /\ o.unlinkTried /\ o.srcAfter) =>
             /\ o.post.failed = o.pre.failed + 1
             /\ pc \in {"loop", "done"}
             /\ o.status = "converted" =>
                   /\ o.post.converted = o.pre.converted + 1
                   /\ o.post.total_input_bytes = o.pre.total_input_bytes + fs0[p].size
                   /\ o.post.total_output_bytes = o.pre.total_output_bytes + o.dstAfter

\* C5: a failure on one file never aborts the run: no exception leaves the
\* loop (pc is never "crashed"), each step takes one entry off the listing
\* and the loop has a step while entries are left, the run ends
\* in its summary, and every eligible file the enumeration yields has then
\* been converted, skipped as existing or counted as failed.
AllHandled ==
    /\ \A p \in EligibleYielded :
         /\ p \in DOMAIN outcome
         /\ LET o == outcome[p]
            IN \/ o.status = "converted" /\ o.post.converted = o.pre.converted + 1
               \/ o.status = "skipped"
                    /\ o.post.skipped_existing = o.pre.skipped_existing + 1
               \/ o.status = "failed" /\ o.post.failed = o.pre.failed + 1
    /\ stats.eligible = Cardinality(EligibleYielded)
    /\ exit.code = 0
C5_RunCompletes ==
    (mode = "batch") =>
        /\ pc \in {"start", "loop", "done", "exit"}
        /\ pc = "loop" =>
              /\ pending \cup DOMAIN outcome = Listing(fs0, DIRECTORY, args.recursive)
              /\ pending \cap DOMAIN outcome = {}
        /\ pc = "done" => AllHandled
C5_Witness ==
    /\ mode = "batch" /\ pc = "done"
    /\ \E p, q \in DOMAIN outcome :
         /\ outcome[p].status = "failed"
         /\ outcome[q].pre.failed > 0
         /\ outcome[q].status = "converted"

\* C6: convert_image on an output path that exists, with overwrite off,
\* returns a failure whose message contains "exists" and leaves the
\* filesystem as it was.
C6_ExistingOutputRefused ==
    (lastCall.called /\ PathExists(lastCall.pre, lastCall.output_path)
        /\ ~lastCall.overwrite) =>
        /\ ~lastCall.res.success
        /\ Contains(lastCall.res.message, EXISTS)
        /\ lastCall.post = lastCall.pre
C6_Witness ==
    /\ lastCall.called
    /\ PathExists(lastCall.pre, lastCall.output_path)
    /\ ~lastCall.overwrite
    /\ lastCall.input.kind = "bytes"

\* C7: an uploaded file with a supported extension and content is reported
\* "converted" when the conversion succeeds, "skipped" when the output exists
\* and overwrite is off, and "failed" for every decode, open or write error,
\* which the summary counts in failed.
ErrorCauses == {"decode error", "open error", "write error"}
C7_StatusFollowsOutcome ==
    (mode = "web") =>
        /\ \A i \in DOMAIN up.results :
             /\ up.causes[i] = "converted" => up.results[i].status = "converted"
             /\ up.causes[i] = "exists" => up.results[i].status = "skipped"
             /\ up.causes[i] \in ErrorCauses => up.results[i].status = "failed"
        /\ up.failed = Cardinality({i \in DOMAIN up.results : up.causes[i] \in ErrorCauses})

\* C8: an entry without a filename is recorded as "skipped", so that after a
\* request every entry has one outcome and converted + skipped + failed is
\* the number of files received.
C8_EveryEntryHasOutcome ==
    (mode = "web" /\ pc = "responded") =>
        /\ Len(up.results) = Len(req.files)
        /\ up.converted + up.skipped + up.failed = up.files_received
        /\ \A i \in DOMAIN req.files :
             req.files[i].filename = <<>> => up.results[i].status = "skipped"

\* C9: the quality of an upload is an integer in 0..100: an integer field
\* above 100 gives 100, one below 0 gives 0, one in range is used as it is,
\* and a missing field or a non-numeric one (no digit in it, or a character
\* that is no digit, sign, blank or underscore) gives 80.
PlainInteger(s) ==
    /\ s # <<>>
    /\ LET body == IF Head(s) = "-" THEN Tail(s) ELSE s
       IN body # <<>> /\ \A i \in DOMAIN body : IsDigit(body[i])
PlainValue(s) ==
    IF Head(s) = "-" THEN 0 - DigitsValue(Tail(s), 0) ELSE DigitsValue(s, 0)
NonNumeric(s) ==
    \/ \A i \in DOMAIN s : ~IsDigit(s[i])
    \/ \E i \in DOMAIN s : ~IsDigit(s[i]) /\ s[i] \notin {"-", "+", " ", "_"}
C9_QualityClamped ==
    (mode = "web" /\ pc # "idle") =>
        /\ up.quality \in 0..100
        /\ lastCall.called => lastCall.quality = up.quality
        /\ (req.hasQuality /\ PlainInteger(req.quality)) =>
              LET n == PlainValue(req.quality)
              IN /\ n > 100 => up.quality = 100
                 /\ n < 0 => up.quality = 0
                 /\ n \in 0..100 => up.quality = n
        /\ (~req.hasQuality \/ NonNumeric(req.quality)) => up.quality = DEFAULT_QUALITY
C9_Witness ==
    /\ mode = "web" /\ pc = "responded"
    /\ req.quality = <<"1", "5", "0">>
    /\ up.quality = 100
    /\ up.converted = 1

\* C10: a CLI run given a quality outside 0..100 ends with a non-zero exit
\* status and an error message before anything is scanned: nothing is
\* enumerated, converted, created or deleted, and no statistics are made.
C10_BadQualityExitsFirst ==
    (mode = "batch" /\ args.quality \notin 0..100 /\ pc # "start") =>
        /\ pc = "exit"
        /\ exit.code > 0
        /\ exit.stderr # ""
        /\ fs = fs0
        /\ pending = {}
        /\ DOMAIN outcome = {}
        /\ stats = ConversionStats
        /\ ~lastCall.called
C10_Witness ==
    /\ mode = "batch" /\ pc = "exit"
    /\ args.quality < 0
    /\ EligibleYielded # {}

\* C11: an error raised while convert_image decodes, encodes or writes comes
\* back as a failure result whose message carries the error text, and a
\* success result is returned only when the output file is completely
\* written, output_size being its size and saved_bytes = input_size -
\* output_size.
CallInputSize ==
    IF lastCall.input.kind = "path" THEN StSize(lastCall.pre, lastCall.input.path)
    ELSE lastCall.input.size
CallInputGood ==
    IF lastCall.input.kind = "path" THEN lastCall.pre[lastCall.input.path].good
    ELSE lastCall.input.good
CallRefused == PathExists(lastCall.pre, lastCall.output_path) /\ ~lastCall.overwrite
StartsWith(s, prefix) == Len(s) >= Len(prefix) /\ SubSeq(s, 1, Len(prefix)) = prefix
C11_ErrorsBecomeResults ==
    (lastCall.called /\ ~CallRefused) =>
        LET res == lastCall.res
            out == lastCall.output_path
            written == /\ out \in DOMAIN lastCall.post
                       /\ lastCall.post[out].kind = "file"
                       /\ lastCall.post[out].good
        IN /\ pc \notin {"crashed", "error"}
           /\ ~CallInputGood => ~res.success /\ Contains(res.message, ERR_IDENTIFY)
           /\ ~written => ~res.success
           /\ ~res.success =>
                 /\ StartsWith(res.message, MSG_ERROR)
                 /\ \/ Contains(res.message, ERR_IDENTIFY)
                    \/ Contains(res.message, ERR_EACCES)
                    \/ Contains(res.message, ERR_ENOSPC)
                 /\ res.input_size = 0 /\ res.output_size = 0 /\ res.saved_bytes = 0
           /\ res.success =>
                 /\ written
                 /\ res.output_size = StSize(lastCall.post, out)
                 /\ res.input_size = CallInputSize
                 /\ res.saved_bytes = res.input_size - res.output_size
C11_Witness ==
    /\ lastCall.called /\ ~CallRefused
    /\ ~lastCall.res.success
    /\ Contains(lastCall.res.message, ERR_ENOSPC)
    /\ lastCall.output_path \in DOMAIN lastCall.post
    /\ lastCall.output_path \notin DOMAIN lastCall.pre

\* C12: a requested subdir of "../../etc" resolves to the output root itself,
\* and the files of the request are written directly under the output root.
FilesWritten == {p \in Changed : p \in DOMAIN fs /\ fs[p].kind = "file"}
C12_TraversalGivesRoot ==
    (mode = "web" /\ pc # "idle" /\ req.subdir = TRAVERSAL) =>
        /\ up.target_dir = OUTPUT_DIR
        /\ \A p \in FilesWritten : SubSeq(p, 1, Len(p) - 1) = OUTPUT_DIR

\* C12, amended: a requested subdir of "../../etc" loses its ".." parts and
\* resolves to the directory etc directly under the output root, which the
\* request creates (no entry of that name being there before) and writes its
\* files into; nothing outside the output root is touched.
C12_TraversalGivesEtcBelowRoot ==
    (mode = "web" /\ pc # "idle" /\ req.subdir = TRAVERSAL
        /\ OUTPUT_DIR \o ETC \notin DOMAIN fs0) =>
        /\ up.subdir = ETC
        /\ up.target_dir = OUTPUT_DIR \o ETC
        /\ pc # "error"
        /\ up.target_dir \in DOMAIN fs /\ fs[up.target_dir].kind = "dir"
        /\ \A p \in FilesWritten : SubSeq(p, 1, Len(p) - 1) = OUTPUT_DIR \o ETC
        /\ \A p \in Changed : InRoot(p)
C12_Witness ==
    /\ mode = "web" /\ pc = "responded" /\ req.subdir = TRAVERSAL
    /\ up.converted = 1
    /\ FilesWritten # {}

\* C13: with replace on and overwrite off, an original is deleted only if it
\* was itself converted in this run or a .webp stood at its output path
\* before the run started; never on the strength of a .webp the run made
\* from another source of the same stem.
DeletedOriginals ==
    {p \in DOMAIN outcome :
        IsFile(fs0, p) /\ outcome[p].unlinkTried /\ ~outcome[p].srcAfter}
C13_DeletedOnlyWithOwnWebp ==
    (mode = "batch" /\ args.replace /\ ~args.overwrite) =>
        \A p \in DeletedOriginals :
            \/ outcome[p].status = "converted"
            \/ PathExists(fs0, to_webp_path(p))

\* C14: with replace off, no file that existed before the run is deleted and
\* no source image is modified: the only changes are .webp files created at
\* the output paths derived from eligible sources (overwritten only when
\* overwrite is on), and deleted_originals and total_deleted_bytes stay 0.
C14_ReplaceOffKeepsOriginals ==
    (mode = "batch" /\ ~args.replace) =>
        /\ \A p \in DOMAIN fs0 : p \in DOMAIN fs /\ fs[p].kind = fs0[p].kind
        /\ \A p \in Changed :
              /\ IsFile(fs, p)
              /\ Suffix(Name(p)) = WEBP
              /\ \E src \in EligibleYielded :
                    to_webp_path(src) = p /\ src \in DOMAIN outcome /\ fs[src] = fs0[src]
              /\ p \in DOMAIN fs0 => args.overwrite
        /\ stats.deleted_originals = 0
        /\ stats.total_deleted_bytes = 0
        /\ \A p \in DOMAIN outcome : ~outcome[p].unlinkTried
C14_Witness ==
    /\ mode = "batch" /\ pc = "done" /\ ~args.replace
    /\ stats.converted = 1 /\ args.overwrite
    /\ \E p \in Changed : p \in DOMAIN fs0

\* C15: after an upload request the summary's total input bytes is the sum
\* of input_bytes over the items reported "converted" and the total output
\* bytes the sum of their output_bytes; skipped and failed items add nothing
\* to either.
RECURSIVE SumConverted(_, _)
SumConverted(results, field) ==
    IF results = <<>> THEN 0
    ELSE (IF Head(results).status = "converted" THEN Head(results)[field] ELSE 0)
            + SumConverted(Tail(results), field)
C15_TotalsAreConvertedBytes ==
    (mode = "web" /\ pc = "responded") =>
        /\ up.total_in = SumConverted(up.results, "input_bytes")
        /\ up.total_out = SumConverted(up.results, "output_bytes")
        /\ \A i \in DOMAIN up.results :
              up.results[i].status # "converted" =>
                  up.results[i].input_bytes = 0 /\ up.results[i].output_bytes = 0

====
